---- MODULE Spec2Model ----
(***************************************************************************)
(* Model of the video-assembly core of AI-Reddit-BrainRot:                 *)
(*   - pick_non_repeating_videos (src/video_utils.py): clip selection with *)
(*     non-repetition and round-robin folder rounds;                       *)
(*   - get_speedup_factor and _apply_duration_based_speed_vaapi with its   *)
(*     alternative-device and CPU fallbacks (src/video_creator.py);        *)
(*   - create_video_with_audio (src/video_creator.py) and the bulk loop    *)
(*     process_video_for_all_stories (src/main.py);                        *)
(*   - get_all_video_files (src/video_utils.py): the catalog build.        *)
(* Each specification runs one part and holds the others idle.             *)
(***************************************************************************)
EXTENDS Integers, Sequences, FiniteSets, TLC

VARIABLES
    \* ---- pick_non_repeating_videos ----
    folder_to_videos,            \* the catalog argument: folder -> set of paths
    count,                       \* the count argument
    sel_pc,                      \* "idle" | "call" | "loop" | "returned" | "raised"
    sel_exc,                     \* "none" | "ValueError" | "KeyError"
    round_i,                     \* iterations of `for _ in range(count)` completed
    result,                      \* the list returned (sequence of paths)
    used_videos,                 \* set of paths already chosen
    last_folder,                 \* folder of the previous pick, None before the first
    available_folders_in_round,  \* the round pool
    folders_with_videos,         \* the copy of the catalog without empty folders
    sel_log,                     \* history: one record per pick (see SelPick)
    \* ---- _apply_duration_based_speed_vaapi ----
    duration_seconds,            \* the audio duration argument (whole seconds)
    target_duration,             \* the random.uniform(150, 166) draw, 0 if not drawn
    speed_factor,                \* <<numerator, denominator>> of the factor
    enc_pc,                      \* "idle" | "call" | "vaapi" | "alt_vaapi" | "cpu" | "returned"
    normal_file,                 \* content of normal_speed.mp4
    final_file,                  \* content of final_output.mp4
    attempts,                    \* history: the ffmpeg runs made, in order
    enc_log,                     \* the operator-visible messages printed, in order
    \* ---- process_video_for_all_stories ----
    stories_data,                \* the input list: one record per story
    batch_pc,                    \* "idle" | "loop" | "returned" | "raised"
    story_i,                     \* stories the `for` loop has gone through
    successful_videos,           \* the list returned (titles)
    attempted,                   \* history: titles passed to create_video_with_audio
    story_results,               \* history: how each of those calls ended
    \* ---- get_all_video_files ----
    videos_root,                 \* the directory tree at videos_root, if it exists
    cat_pc,                      \* "idle" | "call" | "returned"
    \* ---- the caller of pick_non_repeating_videos ----
    sel_calls,                   \* history: selection calls made with the catalog
    catalog_passed,              \* history: the catalog as the caller built it
    \* ---- generate_content_with_fallback ----
    answers,                     \* how each provider's API answers if it is called
    gen_pc,                      \* "idle" | "openai" | "deepseek" | "lmstudio" | "returned"
    gen_result,                  \* the value returned
    gen_calls,                   \* history: the providers called, in order
    \* ---- process_transcription_bulk ----
    trans_pc,                    \* "idle" | "loop" | "returned"
    trans_i,                     \* stories the transcription loop has gone through
    successful_transcriptions,   \* the list returned (titles)
    transcription_log            \* history: what each story's transcription found

selVars == <<folder_to_videos, count, sel_pc, sel_exc, round_i, result, used_videos,
             last_folder, available_folders_in_round, folders_with_videos, sel_log>>
encVars == <<duration_seconds, target_duration, speed_factor, enc_pc, normal_file,
             final_file, attempts, enc_log>>
batchVars == <<stories_data, batch_pc, story_i, successful_videos, attempted,
               story_results>>
dirVars == <<videos_root, cat_pc>>
callVars == <<sel_calls, catalog_passed>>
genVars == <<answers, gen_pc, gen_result, gen_calls>>
transVars == <<trans_pc, trans_i, successful_transcriptions, transcription_log>>
restVars == <<batchVars, dirVars, callVars, genVars, transVars>>
vars == <<selVars, encVars, restVars>>

\* ------------------------------------------------------------------ bounds
MaxFolders == 4      \* most folders in a catalog
MaxTotal == 9        \* most videos in a catalog
MaxCount == 5        \* largest count requested

\* ------------------------------------------------------------------ helpers
None == "None"

Min(a, b) == IF a < b THEN a ELSE b

RECURSIVE Perms(_)
\* every order random.shuffle (or the iteration of a set) can produce
Perms(S) == IF S = {} THEN {<<>>}
            ELSE UNION {{<<x>> \o p : p \in Perms(S \ {x})} : x \in S}

Range(s) == {s[i] : i \in 1..Len(s)}

\* Folder labels are non-empty strings (a subfolder's name, or "_root").
FolderNames == <<"A", "B", "C", "D", "E", "F">>

\* A path is <<folder, index>>: paths of different folders differ.
FolderOf(v) == v[1]

RECURSIVE SumSizes(_, _)
SumSizes(cat, fs) == IF fs = {} THEN 0
                     ELSE LET f == CHOOSE x \in fs : TRUE
                          IN Cardinality(cat[f]) + SumSizes(cat, fs \ {f})

\* total_videos = sum(len(videos) for videos in folder_to_videos.values())
TotalVideos(cat) == SumSizes(cat, DOMAIN cat)

\* the catalog with sizes[f] videos in folder f
MakeCatalog(sizes) == [f \in {FolderNames[k] : k \in 1..Len(sizes)} |->
                         LET k == CHOOSE j \in 1..Len(sizes) : FolderNames[j] = f
                         IN {<<f, i>> : i \in 1..sizes[k]}]

\* Catalogs as get_all_video_files builds them: one entry per folder that holds
\* a video, so no entry is empty. The selection reads folder labels only as
\* dictionary keys and in orders modelled as arbitrary, so catalogs are listed
\* up to renaming of folders: the folders by decreasing size.
SizeVectors == UNION {[1..k -> 1..MaxTotal] : k \in 1..MaxFolders}

Catalogs == {MakeCatalog(s) : s \in {z \in SizeVectors :
                 /\ \A i, j \in DOMAIN z : i < j => z[i] >= z[j]
                 /\ TotalVideos(MakeCatalog(z)) <= MaxTotal}}

\* ------------------------------------------- pick_non_repeating_videos

\* [v for v in folders_with_videos[folder] if v not in used_videos]
UnusedNoFilter(f) == folders_with_videos[f]

Unused(f) == {v \in folders_with_videos[f] : v \notin used_videos}

\* `if count > total_videos: raise ValueError`
NoInventoryCheck(cat, cnt) == FALSE

InsufficientInventory(cat, cnt) == cnt > TotalVideos(cat)

\* random.sample(population, k): every order of every k distinct elements
SamplesWithReplacement(S, k) == [1..k -> S]

Samples(S, k) == {s \in [1..k -> S] : \A i, j \in 1..k : i # j => s[i] # s[j]}

\* `if not available_folders_in_round:` starts a new round
RefillWhenOneLeft(pool) == Cardinality(pool) <= 1

NeedsRefill(pool) == pool = {}

\* the refill of the round pool: folders that still have an unused video
RefillAllFolders == DOMAIN folders_with_videos

RefillPool == {f \in DOMAIN folders_with_videos : Unused(f) # {}}

\* candidate_folders: the pool without last_folder, unless that empties it
CandidatesKeepLast(pool) == pool

Candidates(pool) == IF last_folder # None /\ last_folder \in pool /\ Cardinality(pool) > 1
                    THEN pool \ {last_folder}
                    ELSE pool

\* available_folders_in_round.discard(selected_folder)
PoolKeepPicked(pool, f) == pool

PoolAfterPick(pool, f) == pool \ {f}

\* lines 134-135 with the selected video taken out of the caller's list
CatalogPopPicked(cat, f, v) == [cat EXCEPT ![f] = @ \ {v}]

\* What a pick does to the catalog argument: the video is appended to result
\* and added to used_videos (lines 134-135); the lists read are the copies of
\* line 84, no list of folder_to_videos is written.
CatalogAfterPick(cat, f, v) == cat

RECURSIVE FirstWithUnused(_)
\* `for folder in ...: if unused_videos: selected_folder = folder; break`.
\* folders_with_videos[folder] raises KeyError for a folder it does not hold.
FirstWithUnused(order) ==
    IF order = <<>> THEN None
    ELSE IF Head(order) \notin DOMAIN folders_with_videos THEN "KeyError"
    ELSE IF Unused(Head(order)) # {} THEN Head(order)
    ELSE FirstWithUnused(Tail(order))

SelIdle ==
    /\ folder_to_videos = <<>> /\ count = 0 /\ sel_pc = "idle" /\ sel_exc = "none"
    /\ round_i = 0 /\ result = <<>> /\ used_videos = {} /\ last_folder = None
    /\ available_folders_in_round = {} /\ folders_with_videos = <<>>
    /\ sel_log = <<>>

SelInit ==
    /\ folder_to_videos \in Catalogs
    /\ count \in 0..MaxCount
    /\ sel_pc = "call" /\ sel_exc = "none"
    /\ round_i = 0 /\ result = <<>> /\ used_videos = {} /\ last_folder = None
    /\ available_folders_in_round = {} /\ folders_with_videos = <<>>
    /\ sel_log = <<>>

\* lines 66-69
SelRaiseInsufficient ==
    /\ sel_pc = "call"
    /\ InsufficientInventory(folder_to_videos, count)
    /\ sel_pc' = "raised" /\ sel_exc' = "ValueError"
    /\ UNCHANGED <<folder_to_videos, count, round_i, result, used_videos, last_folder,
                   available_folders_in_round, folders_with_videos, sel_log, encVars, restVars>>

\* lines 71-75
SelSingleFolder ==
    /\ sel_pc = "call"
    /\ ~InsufficientInventory(folder_to_videos, count)
    /\ Cardinality(DOMAIN folder_to_videos) = 1
    /\ LET folder_name == CHOOSE f \in DOMAIN folder_to_videos : TRUE
           all_videos == folder_to_videos[folder_name]
       IN result' \in Samples(all_videos, Min(count, Cardinality(all_videos)))
    /\ sel_pc' = "returned"
    /\ UNCHANGED <<folder_to_videos, count, sel_exc, round_i, used_videos, last_folder,
                   available_folders_in_round, folders_with_videos, sel_log, encVars, restVars>>

\* lines 77-84
SelBeginRounds ==
    /\ sel_pc = "call"
    /\ ~InsufficientInventory(folder_to_videos, count)
    /\ Cardinality(DOMAIN folder_to_videos) # 1
    /\ result' = <<>> /\ used_videos' = {} /\ last_folder' = None
    /\ available_folders_in_round' = DOMAIN folder_to_videos
    /\ folders_with_videos' = [f \in {g \in DOMAIN folder_to_videos :
                                          folder_to_videos[g] # {}} |-> folder_to_videos[f]]
    /\ sel_pc' = "loop"
    /\ UNCHANGED <<folder_to_videos, count, sel_exc, round_i, sel_log, encVars, restVars>>

\* `break` (lines 97, 142) followed by `return result`
SelBreak(pool) ==
    /\ sel_pc' = "returned"
    /\ available_folders_in_round' = pool
    /\ UNCHANGED <<folder_to_videos, count, sel_exc, round_i, result, used_videos,
                   last_folder, folders_with_videos, sel_log, encVars, restVars>>

\* the KeyError of folders_with_videos[folder] leaves the function
SelKeyError(pool) ==
    /\ sel_pc' = "raised" /\ sel_exc' = "KeyError"
    /\ available_folders_in_round' = pool
    /\ UNCHANGED <<folder_to_videos, count, round_i, result, used_videos,
                   last_folder, folders_with_videos, sel_log, encVars, restVars>>

\* lines 128-139: a random unused video of the selected folder
SelPick(selected_folder, pool, poolBefore, stage) ==
    \E selected_video \in Unused(selected_folder) :
        /\ result' = Append(result, selected_video)
        /\ used_videos' = used_videos \cup {selected_video}
        /\ available_folders_in_round' = PoolAfterPick(pool, selected_folder)
        /\ last_folder' = selected_folder
        /\ round_i' = round_i + 1
        /\ sel_log' = Append(sel_log, [folder |-> selected_folder,
                                       pool_before |-> poolBefore,
                                       pool |-> pool,
                                       fallback |-> selected_folder \notin Candidates(pool),
                                       stage |-> stage])
        /\ folder_to_videos' = CatalogAfterPick(folder_to_videos, selected_folder,
                                                selected_video)
        /\ UNCHANGED <<count, sel_pc, sel_exc, folders_with_videos, encVars, restVars>>

\* `stage` names the loop that set selected_folder: "candidate" (lines 108-112),
\* "previous" (lines 115-118) or "any" (lines 121-126)
SelFinish(sel, pool, poolBefore, stage) ==
    IF sel = "KeyError" THEN SelKeyError(pool)
    ELSE IF sel = None THEN SelBreak(pool)
    ELSE SelPick(sel, pool, poolBefore, stage)

\* one iteration of `for _ in range(count)`, lines 86-142
SelRound ==
    /\ sel_pc = "loop"
    /\ round_i < count
    /\ LET poolBefore == available_folders_in_round
           pool == IF NeedsRefill(poolBefore) THEN RefillPool ELSE poolBefore
       IN IF pool = {} THEN SelBreak(pool)
          ELSE \E order \in Perms(Candidates(pool)) :
                 LET first == FirstWithUnused(order)
                 IN IF first # None THEN SelFinish(first, pool, poolBefore, "candidate")
                    ELSE IF last_folder \in pool /\ Unused(last_folder) # {}
                         THEN SelFinish(last_folder, pool, poolBefore, "previous")
                    ELSE \E anyOrder \in Perms(pool) :
                           SelFinish(FirstWithUnused(anyOrder), pool, poolBefore, "any")

\* the loop has run count times: `return result`
SelReturn ==
    /\ sel_pc = "loop"
    /\ round_i = count
    /\ sel_pc' = "returned"
    /\ UNCHANGED <<folder_to_videos, count, sel_exc, round_i, result, used_videos,
                   last_folder, available_folders_in_round, folders_with_videos,
                   sel_log, encVars, restVars>>

MaxCalls == 2        \* most successive calls made with one catalog

\* catalogs small enough to run several calls on
SmallCatalogs == {c \in Catalogs : TotalVideos(c) < MaxCount}

\* no selection call has been made
CallIdle == sel_calls = 0 /\ catalog_passed = <<>>

\* the first call with a catalog
FirstCall == sel_calls = 1 /\ catalog_passed = folder_to_videos

\* the first of several calls with one catalog
ReuseInit ==
    /\ SelInit
    /\ folder_to_videos \in SmallCatalogs
    /\ FirstCall

\* The caller, after a call has returned or raised, calls again with the same
\* catalog object and another count (create_video_with_audio does so for the
\* next story with a freshly built catalog of the same tree).
SelCallAgain ==
    /\ sel_pc \in {"returned", "raised"}
    /\ sel_calls < MaxCalls
    /\ sel_calls' = sel_calls + 1
    /\ count' \in 0..MaxCount
    /\ sel_pc' = "call" /\ sel_exc' = "none"
    /\ round_i' = 0 /\ result' = <<>> /\ used_videos' = {} /\ last_folder' = None
    /\ available_folders_in_round' = {} /\ folders_with_videos' = <<>>
    /\ sel_log' = <<>>
    /\ UNCHANGED <<folder_to_videos, catalog_passed, encVars, batchVars, dirVars,
                   genVars, transVars>>

\* Catalog mappings of any shape: folders may have an empty list, and the
\* mapping may have no folder at all. Listed up to renaming of folders.
AnyCatalogs ==
    {MakeCatalog(z) : z \in {y \in UNION {[1..k -> 0..MaxTotal] : k \in 0..MaxFolders} :
         /\ \A i, j \in DOMAIN y : i < j => y[i] >= y[j]
         /\ TotalVideos(MakeCatalog(y)) < MaxCount}}

\* a call with a mapping of any shape
AnyCatalogInit ==
    /\ folder_to_videos \in AnyCatalogs
    /\ count \in 0..MaxCount
    /\ sel_pc = "call" /\ sel_exc = "none"
    /\ round_i = 0 /\ result = <<>> /\ used_videos = {} /\ last_folder = None
    /\ available_folders_in_round = {} /\ folders_with_videos = <<>>
    /\ sel_log = <<>>

SelNext == SelRaiseInsufficient \/ SelSingleFolder \/ SelBeginRounds \/ SelRound
           \/ SelReturn

\* ------------------------------------------------ speed encoder

NoSpeedupMax == 90       \* `if duration_seconds <= 90`
RampEnd == 180           \* `elif duration_seconds < 180`
RampTop == 179           \* the ramp's divisor is (179 - 90)
TargetMin == 150         \* random.uniform(150, 166)
TargetMax == 166

\* audio durations tried, in whole seconds
Durations == {45, 90, 91, 135, 179, 180, 200}

\* draws of random.uniform(150, 166) tried
Targets == {TargetMin, (TargetMin + TargetMax) \div 2, TargetMax}

\* get_speedup_factor with the long-video division turned around
GetSpeedupFactorInverted(d, target) ==
    IF d <= NoSpeedupMax THEN <<1, 1>>
    ELSE IF d < RampEnd
         THEN <<(RampTop - NoSpeedupMax) + (d - NoSpeedupMax), RampTop - NoSpeedupMax>>
         ELSE <<target, d>>

\* get_speedup_factor with the ramp started at 91 s, as its comment words it
GetSpeedupFactorFrom91(d, target) ==
    IF d <= NoSpeedupMax THEN <<1, 1>>
    ELSE IF d < RampEnd
         THEN <<(RampTop - NoSpeedupMax) + (d - NoSpeedupMax - 1), RampTop - NoSpeedupMax>>
         ELSE <<d, target>>

\* get_speedup_factor, as the fraction <<numerator, denominator>>
GetSpeedupFactor(d, target) ==
    IF d <= NoSpeedupMax THEN <<1, 1>>
    ELSE IF d < RampEnd
         THEN <<(RampTop - NoSpeedupMax) + (d - NoSpeedupMax), RampTop - NoSpeedupMax>>
         ELSE <<d, target>>

\* `speed_factor == 1.0`
IsOne(f) == f[1] = f[2]

\* how a run of ffmpeg through subprocess.run can end
Outcomes == {"ok", "nonzero", "timeout", "notfound", "exception"}

\* what a failed run can leave at the output path it was given with -y
FailedWrite(outcome, final) == IF outcome = "notfound" THEN {final}
                               ELSE {final, "partial"}

\* history record of one ffmpeg run: the backend, how the run ended and the
\* content it left at final_output.mp4
Attempt(tier, outcome, left) == [tier |-> tier, outcome |-> outcome, left |-> left]

\* `if os.path.exists(normal_output): os.remove(normal_output)`
KeepNormal(normal) == normal

RemoveNormal(normal) == "absent"

\* `if os.path.exists(normal_output): os.rename(normal_output, sped_up_output)`:
\* the pair <<normal_speed.mp4, final_output.mp4>> afterwards
RenameNoOverwrite(normal, final) ==
    IF normal = "absent" \/ final # "absent" THEN <<normal, final>>
    ELSE <<"absent", normal>>

RenameNormal(normal, final) ==
    IF normal = "absent" THEN <<normal, final>> ELSE <<"absent", normal>>

\* where _apply_duration_based_speed_vaapi goes after the primary VAAPI run
AfterVaapiTimeoutKeeps(outcome) ==
    CASE outcome = "ok" -> "returned"
      [] outcome = "nonzero" -> "alt_vaapi"
      [] outcome = "timeout" -> "keep"
      [] outcome = "notfound" -> "keep"
      [] OTHER -> "cpu"

AfterVaapi(outcome) ==
    CASE outcome = "ok" -> "returned"        \* lines 175-179
      [] outcome = "nonzero" -> "alt_vaapi"  \* lines 180-186
      [] outcome = "timeout" -> "cpu"        \* lines 198-202
      [] outcome = "notfound" -> "keep"      \* lines 208-212
      [] OTHER -> "cpu"                      \* lines 214-217

\* after _try_alternative_vaapi_device: True returns, False tries the CPU
AfterAltAlwaysCpu(outcome) == "cpu"

AfterAltGivesUp(outcome) == "returned"

AfterAlt(outcome) == IF outcome = "ok" THEN "returned" ELSE "cpu"

\* the CPU run without its timeout: a run that does not end is waited for
AfterCpuNoTimeout(outcome) == IF outcome = "ok" THEN "returned"
                              ELSE IF outcome = "timeout" THEN "cpu_wait" ELSE "keep"

\* after _apply_duration_based_speed_cpu_fallback: True returns, False keeps
\* the normal-speed video
AfterCpu(outcome) == IF outcome = "ok" THEN "returned" ELSE "keep"

EncIdle ==
    /\ duration_seconds = 0 /\ target_duration = 0 /\ speed_factor = <<1, 1>>
    /\ enc_pc = "idle" /\ normal_file = "absent" /\ final_file = "absent"
    /\ attempts = <<>> /\ enc_log = <<>>

\* create_video_with_audio has written normal_speed.mp4 (line 107) and calls
\* _apply_duration_based_speed_vaapi (line 111)
EncInit ==
    /\ duration_seconds \in Durations
    /\ target_duration = 0 /\ speed_factor = <<1, 1>>
    /\ enc_pc = "call" /\ normal_file = "intermediate" /\ final_file = "absent"
    /\ attempts = <<>> /\ enc_log = <<>>

\* lines 131-147
EncCall ==
    /\ enc_pc = "call"
    /\ \E t \in (IF duration_seconds >= RampEnd THEN Targets ELSE {0}) :
         LET f == GetSpeedupFactor(duration_seconds, t)
         IN /\ target_duration' = t
            /\ speed_factor' = f
            /\ IF IsOne(f)
               THEN /\ normal_file' = "absent"       \* os.rename, line 140
                    /\ final_file' = normal_file
                    /\ enc_pc' = "returned"
                    /\ enc_log' = enc_log \o <<"applying", "no_speedup">>
               ELSE /\ enc_pc' = "vaapi"
                    /\ enc_log' = enc_log \o <<"applying", "processing_vaapi">>
                    /\ UNCHANGED <<normal_file, final_file>>
    /\ UNCHANGED <<duration_seconds, attempts, selVars, restVars>>

\* the messages of lines 176-223 after the primary run ended with `outcome`
VaapiMessages(outcome) ==
    CASE outcome = "ok" -> <<"vaapi_ok", "final_video">>
      [] outcome = "nonzero" -> <<"vaapi_failed">>
      [] outcome = "timeout" -> <<"vaapi_timeout", "falling_back_cpu">>
      [] outcome = "notfound" -> <<"ffmpeg_not_found", "keeping_normal", "final_video">>
      [] OTHER -> <<"vaapi_error", "trying_cpu">>

\* lines 163-221: the run on /dev/dri/renderD128 and what follows at once
EncRunVaapi ==
    /\ enc_pc = "vaapi"
    /\ \E outcome \in Outcomes :
         LET next == AfterVaapi(outcome)
         IN /\ enc_log' = enc_log \o VaapiMessages(outcome)
            /\ IF outcome = "ok"
               THEN /\ final_file' = "vaapi"
                    /\ normal_file' = RemoveNormal(normal_file)
                    /\ enc_pc' = next
                    /\ attempts' = Append(attempts, Attempt("vaapi", outcome, "vaapi"))
               ELSE \E left \in FailedWrite(outcome, final_file) :
                      /\ attempts' = Append(attempts, Attempt("vaapi", outcome, left))
                      /\ IF next = "keep"
                         THEN /\ normal_file' = RenameNormal(normal_file, left)[1]
                              /\ final_file' = RenameNormal(normal_file, left)[2]
                              /\ enc_pc' = "returned"
                         ELSE /\ final_file' = left
                              /\ normal_file' = normal_file
                              /\ enc_pc' = next
    /\ UNCHANGED <<duration_seconds, target_duration, speed_factor, selVars, restVars>>

\* _try_alternative_vaapi_device (lines 226-270) and lines 186-190
EncRunAltVaapi ==
    /\ enc_pc = "alt_vaapi"
    /\ \E outcome \in Outcomes :
         /\ enc_pc' = AfterAlt(outcome)
         /\ IF outcome = "ok"
            THEN /\ final_file' = "alt_vaapi"
                 /\ normal_file' = RemoveNormal(normal_file)
                 /\ attempts' = Append(attempts, Attempt("alt_vaapi", outcome, "alt_vaapi"))
                 /\ enc_log' = enc_log \o <<"trying_alt", "alt_ok">>
            ELSE /\ final_file' \in FailedWrite(outcome, final_file)
                 /\ attempts' = Append(attempts, Attempt("alt_vaapi", outcome, final_file'))
                 /\ normal_file' = normal_file
                 /\ enc_log' = enc_log \o <<"trying_alt",
                        IF outcome = "nonzero" THEN "alt_failed" ELSE "alt_error",
                        "trying_cpu">>
    /\ UNCHANGED <<duration_seconds, target_duration, speed_factor, selVars, restVars>>

\* the handler of the primary run that called the CPU fallback
CpuCalledFrom == attempts[1].outcome

\* _apply_duration_based_speed_cpu_fallback (lines 273-316) and what its
\* caller does with False (lines 194-196, 204-206, 219-221, 223)
EncRunCpu ==
    /\ enc_pc = "cpu"
    /\ \E outcome \in Outcomes :
         LET next == AfterCpu(outcome)
         IN IF outcome = "ok"
               THEN /\ final_file' = "cpu"
                    /\ normal_file' = RemoveNormal(normal_file)
                    /\ enc_pc' = next
                    /\ attempts' = Append(attempts, Attempt("cpu", outcome, "cpu"))
                    /\ enc_log' = enc_log \o <<"using_cpu", "cpu_ok">>
               ELSE \E left \in FailedWrite(outcome, final_file) :
                      /\ attempts' = Append(attempts, Attempt("cpu", outcome, left))
                      /\ IF next = "keep"
                         THEN /\ normal_file' = RenameNormal(normal_file, left)[1]
                              /\ final_file' = RenameNormal(normal_file, left)[2]
                              /\ enc_pc' = "returned"
                         ELSE /\ final_file' = left
                              /\ normal_file' = normal_file
                              /\ enc_pc' = next
                      /\ enc_log' = enc_log
                            \o <<"using_cpu",
                                  IF outcome = "nonzero" THEN "cpu_failed" ELSE "cpu_error">>
                            \o (IF CpuCalledFrom = "nonzero" THEN <<>>
                                ELSE <<"keeping_normal">>)
                            \o <<"final_video">>
    /\ UNCHANGED <<duration_seconds, target_duration, speed_factor, selVars, restVars>>

EncNext == EncCall \/ EncRunVaapi \/ EncRunAltVaapi \/ EncRunCpu

\* ------------------------------------------------ get_speedup_factor alone

MaxDuration == 240       \* longest duration passed to get_speedup_factor

\* the whole-second draws of random.uniform(150, 166)
TargetRange == TargetMin..TargetMax

\* a caller holds a duration and is about to call get_speedup_factor
FactorInit ==
    /\ duration_seconds \in 1..MaxDuration
    /\ target_duration = 0 /\ speed_factor = <<1, 1>>
    /\ enc_pc = "factor_call" /\ normal_file = "absent" /\ final_file = "absent"
    /\ attempts = <<>> /\ enc_log = <<>>

\* get_speedup_factor(duration_seconds), lines 28-43
FactorCall ==
    /\ enc_pc = "factor_call"
    /\ \E t \in (IF duration_seconds >= RampEnd THEN TargetRange ELSE {0}) :
         /\ target_duration' = t
         /\ speed_factor' = GetSpeedupFactor(duration_seconds, t)
    /\ enc_pc' = "factor_done"
    /\ UNCHANGED <<duration_seconds, normal_file, final_file, attempts, enc_log, selVars, restVars>>

FactorNext == FactorCall

\* ------------------------------------------------ create_video_with_audio

FramesPerSecond == 60    \* write_videofile(..., fps=60)
ClipSeconds == 5         \* count = int(audio_duration // 5) + 1

\* Durations of audio and clips are counted in half frame intervals, so that a
\* clip can end between two frames of the output.
Second == 2 * FramesPerSecond

\* count = int(audio_duration // 5) + 1
ClipCount(audio_duration) == (audio_duration \div (ClipSeconds * Second)) + 1

\* One selected file as VideoFileClip finds it: it opens with a duration or
\* the constructor raises.
Clip(readable, duration) == [readable |-> readable, duration |-> duration]

Unreadable == Clip(FALSE, 0)

\* lines 77-89 with `except: continue` replaced by a `break`
RECURSIVE LoadClipsStopOnError(_, _, _, _, _)
LoadClipsStopOnError(selected_videos, k, video_clips, total_duration, audio_duration) ==
    IF k > Len(selected_videos) \/ ~selected_videos[k].readable
    THEN [video_clips |-> video_clips, total_duration |-> total_duration]
    ELSE LET total == total_duration + selected_videos[k].duration
         IN IF total >= audio_duration
            THEN [video_clips |-> Append(video_clips, k), total_duration |-> total]
            ELSE LoadClipsStopOnError(selected_videos, k + 1, Append(video_clips, k),
                                      total, audio_duration)

\* lines 77-89: the loop over selected_videos from position k on; video_clips
\* holds the positions of the clips that were opened
RECURSIVE LoadClips(_, _, _, _, _)
LoadClips(selected_videos, k, video_clips, total_duration, audio_duration) ==
    IF k > Len(selected_videos)
    THEN [video_clips |-> video_clips, total_duration |-> total_duration]
    ELSE IF ~selected_videos[k].readable                  \* except: continue
    THEN LoadClips(selected_videos, k + 1, video_clips, total_duration, audio_duration)
    ELSE LET total == total_duration + selected_videos[k].duration
         IN IF total >= audio_duration                    \* break
            THEN [video_clips |-> Append(video_clips, k), total_duration |-> total]
            ELSE LoadClips(selected_videos, k + 1, Append(video_clips, k),
                           total, audio_duration)

\* the instants of the frames that write_videofile asks of a clip cut to
\* audio_duration at 60 fps: 0, 1/60, 2/60, ... below audio_duration
FrameInstants(audio_duration) ==
    {t \in 0..(audio_duration - 1) : t % 2 = 0}

\* a frame is asked at an instant where the concatenated footage has ended
FrameBeyondFootage(total_duration, audio_duration) ==
    \E t \in FrameInstants(audio_duration) : t >= total_duration

\* lines 97-107, concatenate/subclip/set_audio/write_videofile: how the
\* composition can end. Nothing in create_video_with_audio compares
\* total_duration with audio_duration after the loop; the composition cannot
\* deliver a frame past the end of the footage, and any write can fail.
WriteOutcomes(total_duration, audio_duration) ==
    IF FrameBeyondFootage(total_duration, audio_duration) THEN {"raised"}
    ELSE {"written", "raised"}

\* what _apply_duration_based_speed_vaapi (line 111) leaves at final_output.mp4
EncodeFinals(audio_duration) ==
    IF audio_duration <= NoSpeedupMax * Second THEN {"intermediate"}
    ELSE {"intermediate", "vaapi", "alt_vaapi", "cpu"}

\* How one call of create_video_with_audio ended: by return or by an exception
\* that left it, the line group it ended at, the files it left in the output
\* folder, and what the clip loop had loaded.
CreateResult(ended, at, normal, final, loaded) ==
    [ended |-> ended, at |-> at, normal |-> normal, final |-> final,
     video_clips |-> loaded.video_clips, total_duration |-> loaded.total_duration]

NothingLoaded == [video_clips |-> <<>>, total_duration |-> 0]

\* The world one story's call runs in. audio: "missing" | "unreadable" | "ok";
\* videos: "listing_error" (iterating the videos root raises) | "ok";
\* inventory: the number of videos in the catalog; selected_videos: the clips
\* pick_non_repeating_videos returns when the inventory suffices.
StoryEnv(audio, audio_duration, videos, inventory, selected_videos) ==
    [audio |-> audio, audio_duration |-> audio_duration, videos |-> videos,
     inventory |-> inventory, selected_videos |-> selected_videos]

\* create_video_with_audio (lines 45-126): the set of ways the call can end
CreateVideoWithAudio(env) ==
    IF env.audio = "missing"                                     \* lines 51-54
    THEN {CreateResult("returned", "no_audio", "absent", "absent", NothingLoaded)}
    ELSE IF env.audio = "unreadable"                             \* lines 56-61
    THEN {CreateResult("returned", "audio_error", "absent", "absent", NothingLoaded)}
    ELSE IF env.videos = "listing_error"                         \* line 64, not in a try
    THEN {CreateResult("raised", "catalog", "absent", "absent", NothingLoaded)}
    ELSE IF env.inventory = 0                                    \* lines 65-67
    THEN {CreateResult("returned", "no_videos", "absent", "absent", NothingLoaded)}
    ELSE IF ClipCount(env.audio_duration) > env.inventory        \* lines 71-75
    THEN {CreateResult("returned", "insufficient", "absent", "absent", NothingLoaded)}
    ELSE LET loaded == LoadClips(env.selected_videos, 1, <<>>, 0, env.audio_duration)
         IN IF loaded.video_clips = <<>>                         \* lines 91-93
            THEN {CreateResult("returned", "no_clips", "absent", "absent", loaded)}
            ELSE UNION {
                   IF w = "written"                              \* lines 107-117
                   THEN {CreateResult("returned", "done", "absent", f, loaded) :
                            f \in EncodeFinals(env.audio_duration)}
                   ELSE {CreateResult("returned", "creation_error", n, "absent", loaded) :
                            n \in {"absent", "partial"}}         \* lines 119-126
                   : w \in WriteOutcomes(loaded.total_duration, env.audio_duration)}

\* ------------------------------------------------ process_video_for_all_stories

MaxStories == 3      \* most stories in one bulk run

\* the loop of lines 178-188 left at the first call that raises
NextStoryStopOnRaise(i, r, n) == IF r.ended = "raised" THEN n ELSE i + 1

\* `for i, (...) in enumerate(stories_data, 1)`: the position after story i + 1
\* of n, whose call ended as r
NextStory(i, r, n) == i + 1

\* clips as the selected files can be: unreadable, 3 s, one frame less than
\* 8 s, half a frame less than 8 s, 8 s
ClipKinds == {Unreadable, Clip(TRUE, 3 * Second), Clip(TRUE, 8 * Second - 2),
              Clip(TRUE, 8 * Second - 1), Clip(TRUE, 8 * Second)}

\* audio durations tried: 3 s (1 clip), 8 s (2 clips), 100 s (21 clips)
ShortAudios == {3 * Second, 8 * Second}

LongAudio == 100 * Second

\* every world tried for a single story
StoryEnvs ==
    {StoryEnv("missing", 0, "ok", 0, <<>>), StoryEnv("unreadable", 0, "ok", 0, <<>>)}
    \cup {StoryEnv("ok", a, "listing_error", 0, <<>>) : a \in ShortAudios}
    \cup {StoryEnv("ok", a, "ok", ClipCount(a) - 1, <<>>) : a \in ShortAudios}
    \cup UNION {{StoryEnv("ok", a, "ok", ClipCount(a), sel) :
                    sel \in [1..ClipCount(a) -> ClipKinds]} : a \in ShortAudios}
    \cup {StoryEnv("ok", LongAudio, "ok", ClipCount(LongAudio),
                   [k \in 1..ClipCount(LongAudio) |-> Clip(TRUE, 8 * Second)])}

\* the worlds tried for the stories of a bulk run: one per way a call can end
BatchEnvs ==
    {StoryEnv("missing", 0, "ok", 0, <<>>),
     StoryEnv("ok", 3 * Second, "listing_error", 0, <<>>),
     StoryEnv("ok", 8 * Second, "ok", 1, <<>>),
     StoryEnv("ok", 3 * Second, "ok", 1, <<Unreadable>>),
     StoryEnv("ok", 3 * Second, "ok", 1, <<Clip(TRUE, 3 * Second)>>),
     StoryEnv("ok", LongAudio, "ok", ClipCount(LongAudio),
              [k \in 1..ClipCount(LongAudio) |-> Clip(TRUE, 8 * Second)])}

\* the story tuple (title, story, output_folder), with the world of its folder
Story(title, env) == [title |-> title, env |-> env]

BatchIdle ==
    /\ stories_data = <<>> /\ batch_pc = "idle" /\ story_i = 0
    /\ successful_videos = <<>> /\ attempted = <<>> /\ story_results = <<>>

\* lines 168-176 for a list of one story
StoryInit ==
    /\ stories_data \in {<<Story(1, e)>> : e \in StoryEnvs}
    /\ batch_pc = "loop" /\ story_i = 0
    /\ successful_videos = <<>> /\ attempted = <<>> /\ story_results = <<>>

\* lines 168-176
BatchInit ==
    /\ stories_data \in UNION {{[k \in 1..n |-> Story(k, envs[k])] :
                                   envs \in [1..n -> BatchEnvs]} : n \in 0..MaxStories}
    /\ batch_pc = "loop" /\ story_i = 0
    /\ successful_videos = <<>> /\ attempted = <<>> /\ story_results = <<>>

\* one iteration of the loop, lines 178-188
BatchStory ==
    /\ batch_pc = "loop"
    /\ story_i < Len(stories_data)
    /\ LET s == stories_data[story_i + 1]
       IN \E r \in CreateVideoWithAudio(s.env) :
            /\ attempted' = Append(attempted, s.title)
            /\ story_results' = Append(story_results, r)
            /\ successful_videos' = IF r.ended = "returned"
                                    THEN Append(successful_videos, s.title)
                                    ELSE successful_videos       \* except, lines 186-188
            /\ story_i' = NextStory(story_i, r, Len(stories_data))
    /\ UNCHANGED <<stories_data, batch_pc, selVars, encVars, dirVars, callVars, genVars, transVars>>

\* lines 190-195
BatchReturn ==
    /\ batch_pc = "loop"
    /\ story_i = Len(stories_data)
    /\ batch_pc' = "returned"
    /\ UNCHANGED <<stories_data, story_i, successful_videos, attempted, story_results,
                   selVars, encVars, dirVars, callVars, genVars, transVars>>

BatchNext == BatchStory \/ BatchReturn

\* ------------------------------------------------ get_all_video_files

MaxDirFiles == 2     \* most files directly in one subfolder

\* File names are sequences of characters.
\* str.lower() on the characters that occur in the names tried
LowerKeepCase(c) == c

Lower(c) ==
    CASE c = "A" -> "a" [] c = "B" -> "b" [] c = "E" -> "e" [] c = "I" -> "i"
      [] c = "K" -> "k" [] c = "M" -> "m" [] c = "O" -> "o" [] c = "P" -> "p"
      [] c = "V" -> "v" [] c = "W" -> "w" [] OTHER -> c

LowerAll(str) == [k \in 1..Len(str) |-> Lower(str[k])]

\* video_extensions = ('.mp4', '.mov', '.avi', '.mkv', '.webm')
video_extensions ==
    {<<".", "m", "p", "4">>, <<".", "m", "o", "v">>, <<".", "a", "v", "i">>,
     <<".", "m", "k", "v">>, <<".", "w", "e", "b", "m">>}

\* Path.suffix: the name from its last dot on, "" when the name has no dot or
\* the last dot is its first or its last character
Suffix(name) ==
    LET dots == {k \in 1..Len(name) : name[k] = "."}
    IN IF dots = {} THEN <<>>
       ELSE LET last == CHOOSE k \in dots : \A j \in dots : j <= k
            IN IF last = 1 \/ last = Len(name) THEN <<>>
               ELSE SubSeq(name, last, Len(name))

\* `file.suffix.lower() in video_extensions`
IsVideoFile(name) == LowerAll(Suffix(name)) \in video_extensions

\* the label of line 34
RootLabel == "_root"

\* One subfolder: the files directly in it, and whether it holds a folder of
\* its own with a video in it.
Dir(files, deep) == [files |-> files, deep |-> deep]

\* The tree under videos_root: the files directly in it and its subfolders by
\* name.
Tree(files, dirs) == [exists |-> TRUE, files |-> files, dirs |-> dirs]

\* no directory at videos_root
MissingRoot == [exists |-> FALSE, files |-> {}, dirs |-> <<>>]

\* str(file) of a file directly under the root, and of a file in a subfolder
RootPath(name) == <<name>>

DirPath(d, name) == <<d, name>>

\* lines 27-30
RootVideos(tree) == {RootPath(n) : n \in {f \in tree.files : IsVideoFile(f)}}

\* the name of the folder that a subfolder with `deep` holds: it ends like a
\* video file's name
DeepFolderName == <<"s", ".", "m", "p", "4">>

\* item.iterdir() of a subfolder: its entries with what is_file() says of them
Entries(dir) ==
    {[name |-> f, is_file |-> TRUE] : f \in dir.files}
    \cup (IF dir.deep THEN {[name |-> DeepFolderName, is_file |-> FALSE]} ELSE {})

\* line 41 without the is_file() test
IsVideoEntryAnyKind(e) == IsVideoFile(e.name)

\* line 41: `file.is_file() and file.suffix.lower() in video_extensions`
IsVideoEntry(e) == e.is_file /\ IsVideoFile(e.name)

\* lines 39-42
FolderVideos(tree, d) ==
    {DirPath(d, e.name) : e \in {x \in Entries(tree.dirs[d]) : IsVideoEntry(x)}}

\* get_all_video_files (lines 18-55): the dict returned. The subfolders are
\* written after the "_root" entry, so a subfolder of that name replaces it.
GetAllVideoFiles(tree) ==
    IF ~tree.exists THEN <<>>                                    \* lines 22-24
    ELSE LET root_videos == RootVideos(tree)
             with_videos == {d \in DOMAIN tree.dirs : FolderVideos(tree, d) # {}}
             labels == with_videos \cup (IF root_videos # {} THEN {RootLabel} ELSE {})
         IN [f \in labels |-> IF f \in with_videos THEN FolderVideos(tree, f)
                              ELSE root_videos]

\* file names tried at the root and in subfolders
RootFileNames == {<<"a", ".", "m", "p", "4">>, <<"b", ".", "M", "O", "V">>,
                  <<"n", ".", "t", "x", "t">>}

DirFileNames == {<<"c", ".", "a", "v", "i">>, <<"d", ".", "M", "k", "v">>,
                 <<"e", ".", "w", "e", "b", "m">>, <<"R", "E", "A", "D", "M", "E">>,
                 <<"m", "p", "4", ".">>}

\* subfolder names tried
DirNames == {"clips", RootLabel}

Dirs == {Dir(fs, deep) : fs \in {x \in SUBSET DirFileNames : Cardinality(x) <= MaxDirFiles},
                         deep \in BOOLEAN}

Trees == {Tree(fs, ds) : fs \in SUBSET RootFileNames,
                         ds \in UNION {[names -> Dirs] : names \in SUBSET DirNames}}

DirIdle == videos_root = MissingRoot /\ cat_pc = "idle"

DirInit ==
    /\ videos_root \in {MissingRoot} \cup Trees
    /\ cat_pc = "call"

\* folder_to_videos = get_all_video_files(videos_root)
CatalogBuild ==
    /\ cat_pc = "call"
    /\ folder_to_videos' = GetAllVideoFiles(videos_root)
    /\ cat_pc' = "returned"
    /\ UNCHANGED <<count, sel_pc, sel_exc, round_i, result, used_videos, last_folder,
                   available_folders_in_round, folders_with_videos, sel_log,
                   videos_root, encVars, batchVars, callVars, genVars, transVars>>

CatalogNext == CatalogBuild

\* ------------------------------------------------ generate_content_with_fallback

\* the three providers in the order of their call sites (lines 181, 188, 195)
Providers == <<"openai", "deepseek", "lmstudio">>

\* How a provider's API answers when it is called: the call raises, the
\* message content is None, the content is the empty string, or it is a text.
Answers == {"exception", "null", "empty", "text"}

\* the value generate_content_with_fallback can hold besides a content
GenNone == <<"", "None">>

\* generate_with_openai / _deepseek / _lmstudio: the content of the answer, or
\* None after an exception (`except Exception: return None`)
ProviderResult(p, answer) ==
    CASE answer = "exception" -> GenNone
      [] answer = "null" -> GenNone
      [] answer = "empty" -> <<p, "">>
      [] answer = "text" -> <<p, "text">>

\* `if result:` in place of `if result is not None:`
IsFalsy(r) == r = GenNone \/ r[2] = ""

\* `if result is not None: return result` fails over exactly on None
IsNoneResult(r) == r = GenNone

GenIdle ==
    /\ answers = <<>> /\ gen_pc = "idle" /\ gen_result = GenNone /\ gen_calls = <<>>

GenInit ==
    /\ answers \in [Range(Providers) -> Answers]
    /\ gen_pc = "openai" /\ gen_result = GenNone /\ gen_calls = <<>>

\* a call of provider p and the test that follows it; `next` is where the
\* function goes when the result is None
GenTry(p, next) ==
    /\ LET r == ProviderResult(p, answers[p])
       IN /\ gen_calls' = Append(gen_calls, p)
          /\ IF IsNoneResult(r)
             THEN gen_pc' = next /\ gen_result' = GenNone
             ELSE gen_pc' = "returned" /\ gen_result' = r
    /\ UNCHANGED <<answers, selVars, encVars, batchVars, dirVars, callVars, transVars>>

\* lines 181-184
GenTryOpenAI ==
    /\ gen_pc = "openai"
    /\ GenTry("openai", "deepseek")

\* lines 187-191
GenTryDeepSeek ==
    /\ gen_pc = "deepseek"
    /\ GenTry("deepseek", "lmstudio")

\* lines 194-202: after LMStudio the function returns in either case
GenTryLMStudio ==
    /\ gen_pc = "lmstudio"
    /\ GenTry("lmstudio", "returned")

GenNext == GenTryOpenAI \/ GenTryDeepSeek \/ GenTryLMStudio

\* ------------------------------------------------ process_transcription_bulk

\* the name create_video_with_audio publishes the final video under
\* (video_creator.py lines 139, 145)
PublishedName == "final_output.mp4"

\* the name process_transcription_for_story reads (line 442)
TranscriptionInput == "gene_video.mp4"

\* The files of a story's output folder after its call of
\* create_video_with_audio ended as r, in a folder that held the story's audio
\* (if any) and nothing else before.
OutputFolder(env, r) ==
    (IF env.audio # "missing" THEN {"gene_audio.wav"} ELSE {})
    \cup (IF r.normal # "absent" THEN {"normal_speed.mp4"} ELSE {})
    \cup (IF r.final # "absent" THEN {PublishedName} ELSE {})

\* how the speech recognition can end on an input it was given
TranscribeOutcomes == {TRUE, FALSE}

TransIdle ==
    /\ trans_pc = "idle" /\ trans_i = 0
    /\ successful_transcriptions = <<>> /\ transcription_log = <<>>

\* run_bulk_pipeline, main.py lines 238-246, with transcription enabled
TransBegin ==
    /\ batch_pc = "returned" /\ trans_pc = "idle"
    /\ trans_pc' = IF successful_videos # <<>> THEN "loop" ELSE "returned"
    /\ UNCHANGED <<trans_i, successful_transcriptions, transcription_log,
                   selVars, encVars, batchVars, dirVars, callVars, genVars>>

\* one iteration of the loop of process_transcription_bulk (lines 534-557)
\* with process_transcription_for_story (lines 433-505)
TranscribeStory ==
    /\ trans_pc = "loop"
    /\ trans_i < Len(successful_videos)
    /\ LET title == successful_videos[trans_i + 1]
           k == CHOOSE j \in 1..Len(stories_data) : stories_data[j].title = title
           files == OutputFolder(stories_data[k].env, story_results[k])
           found == TranscriptionInput \in files              \* lines 442-446
       IN \E success \in (IF found THEN TranscribeOutcomes ELSE {FALSE}) :
            /\ transcription_log' = Append(transcription_log,
                   [title |-> title, files |-> files, found |-> found,
                    success |-> success])
            /\ successful_transcriptions' =
                   IF success THEN Append(successful_transcriptions, title)
                   ELSE successful_transcriptions
    /\ trans_i' = trans_i + 1
    /\ UNCHANGED <<trans_pc, selVars, encVars, batchVars, dirVars, callVars, genVars>>

\* the loop has gone through every story
TransReturn ==
    /\ trans_pc = "loop"
    /\ trans_i = Len(successful_videos)
    /\ trans_pc' = "returned"
    /\ UNCHANGED <<trans_i, successful_transcriptions, transcription_log,
                   selVars, encVars, batchVars, dirVars, callVars, genVars>>

PipelineNext == BatchNext \/ TransBegin \/ TranscribeStory \/ TransReturn

\* ------------------------------------------------ specifications

GenOnlyInit ==
    GenInit /\ SelIdle /\ EncIdle /\ BatchIdle /\ DirIdle /\ CallIdle /\ TransIdle

GenSpec == GenOnlyInit /\ [][GenNext]_vars

PipelineInit ==
    BatchInit /\ SelIdle /\ EncIdle /\ DirIdle /\ CallIdle /\ GenIdle /\ TransIdle

PipelineSpec == PipelineInit /\ [][PipelineNext]_vars


CatalogInit ==
    DirInit /\ SelIdle /\ EncIdle /\ BatchIdle /\ CallIdle
    /\ GenIdle /\ TransIdle

CatalogSpec == CatalogInit /\ [][CatalogNext]_vars


StoryOnlyInit ==
    StoryInit /\ SelIdle /\ EncIdle /\ DirIdle /\ CallIdle
    /\ GenIdle /\ TransIdle

StorySpec == StoryOnlyInit /\ [][BatchNext]_vars

BatchOnlyInit ==
    BatchInit /\ SelIdle /\ EncIdle /\ DirIdle /\ CallIdle
    /\ GenIdle /\ TransIdle

BatchSpec == BatchOnlyInit /\ [][BatchNext]_vars


FactorOnlyInit ==
    FactorInit /\ SelIdle /\ BatchIdle /\ DirIdle /\ CallIdle
    /\ GenIdle /\ TransIdle

FactorSpec == FactorOnlyInit /\ [][FactorNext]_vars

SelectInit ==
    SelInit /\ EncIdle /\ BatchIdle /\ DirIdle /\ FirstCall
    /\ GenIdle /\ TransIdle

AnyCatalogOnlyInit ==
    AnyCatalogInit /\ EncIdle /\ BatchIdle /\ DirIdle /\ FirstCall
    /\ GenIdle /\ TransIdle

AnyCatalogSpec == AnyCatalogOnlyInit /\ [][SelNext]_vars

ReuseOnlyInit ==
    ReuseInit /\ EncIdle /\ BatchIdle /\ DirIdle
    /\ GenIdle /\ TransIdle

ReuseNext == SelNext \/ SelCallAgain

ReuseSpec == ReuseOnlyInit /\ [][ReuseNext]_vars


SelectSpec == SelectInit /\ [][SelNext]_vars

EncodeInit ==
    EncInit /\ SelIdle /\ BatchIdle /\ DirIdle /\ CallIdle
    /\ GenIdle /\ TransIdle

EncodeSpec == EncodeInit /\ [][EncNext]_vars

\* one call in progress, of the encoder or of the selector
TerminateInit == EncodeInit \/ ReuseOnlyInit

TerminateNext == EncNext \/ SelNext

\* A call in progress keeps running: every ffmpeg run is a blocking
\* subprocess.run with a timeout (lines 171, 253, 299) and every loop
\* iteration of the selector is finite work.
TerminateSpec == TerminateInit /\ [][TerminateNext]_vars
                 /\ WF_vars(EncNext) /\ WF_vars(SelNext)

\* ------------------------------------------------ properties: selection

NumFolders == Cardinality(DOMAIN folder_to_videos)

MultiFolder == NumFolders >= 2

AllPaths == UNION {folder_to_videos[f] : f \in DOMAIN folder_to_videos}

NoDuplicate(seq) == \A i, j \in 1..Len(seq) : i # j => seq[i] # seq[j]

\* the folders that still have a video outside the first n selections
WithUnusedAfter(n) ==
    {f \in DOMAIN folder_to_videos :
        folder_to_videos[f] \ {result[m] : m \in 1..n} # {}}

\* C1: with two or more folders and 0 <= count <= total, the call does not
\* raise, never holds a path twice, and returns exactly count pairwise distinct
\* paths of the catalog.
C1_ReturnsCountDistinctPaths ==
    (MultiFolder /\ count <= TotalVideos(folder_to_videos)) =>
        /\ sel_pc # "raised"
        /\ NoDuplicate(result)
        /\ Range(result) \subseteq AllPaths
        /\ sel_pc = "returned" => Len(result) = count

C1_Witness ==
    /\ sel_pc = "returned" /\ NumFolders = 3 /\ count = MaxCount
    /\ Len(result) = MaxCount
    /\ TotalVideos(folder_to_videos) = MaxCount

\* C2: when count exceeds the total number of videos the call raises
\* ValueError before it selects anything: nothing is returned, no selection
\* state is built and the catalog is still the catalog that was passed.
C2_InsufficientInventoryRaises ==
    count > TotalVideos(folder_to_videos) =>
        /\ sel_pc \in {"call", "raised"}
        /\ sel_pc = "raised" => sel_exc = "ValueError"
        /\ result = <<>> /\ used_videos = {} /\ sel_log = <<>>
        /\ folder_to_videos \in Catalogs

C2_Witness ==
    /\ sel_pc = "raised" /\ sel_exc = "ValueError" /\ MultiFolder
    /\ count = TotalVideos(folder_to_videos) + 1

\* C3: in a multi-folder selection two consecutive selections come from the
\* same folder only if, when the second is made, that folder is the only one
\* with an unused video; and catalog {A: 3 videos, B: 2 videos} with count 4
\* returns 4 distinct paths, no two consecutive ones of the same folder.
C3_ConsecutiveOnlyWhenForced ==
    MultiFolder =>
        /\ \A i \in 2..Len(result) :
              FolderOf(result[i]) = FolderOf(result[i - 1]) =>
                  WithUnusedAfter(i - 1) = {FolderOf(result[i])}
        /\ (folder_to_videos = MakeCatalog(<<3, 2>>) /\ count = 4 /\ sel_pc = "returned") =>
              /\ Len(result) = 4 /\ NoDuplicate(result)
              /\ \A i \in 2..4 : FolderOf(result[i]) # FolderOf(result[i - 1])

C3_Witness ==
    /\ folder_to_videos = MakeCatalog(<<3, 2>>) /\ count = 4 /\ sel_pc = "returned"
    /\ Len(result) = 4

\* the folders of selections i-k+1 .. i are pairwise different
WindowDistinct(i, k) ==
    \A a, b \in (i - k + 1)..i : a # b => FolderOf(result[a]) # FolderOf(result[b])

\* selections i-k+1 .. i belong to one round: no refill before any but the first
WindowInOneRound(i, k) == \A m \in (i - k + 2)..i : sel_log[m].pool_before # {}

\* C4 as stated: in a multi-folder selection no folder appears twice in a
\* window of k consecutive selections when k is smaller than the number of
\* folders that still have unused videos (counted after the window, the
\* reading most favourable to the statement).
C4_WindowOriginal ==
    MultiFolder =>
        \A i \in 1..Len(result) : \A k \in 1..i :
            k < Cardinality(WithUnusedAfter(i)) => WindowDistinct(i, k)

\* C4 amended: the window property holds for windows of at most 2 selections
\* (hence as stated for catalogs of 2 and 3 folders) and for windows that lie
\* within one round, with the folders with unused videos counted when the
\* window's last selection is made.
C4_WindowAmended ==
    MultiFolder =>
        \A i \in 1..Len(result) : \A k \in 1..i :
            (k < Cardinality(WithUnusedAfter(i - 1)) /\ (k <= 2 \/ WindowInOneRound(i, k)))
                => WindowDistinct(i, k)

C4_Witness ==
    /\ NumFolders = 4 /\ Len(result) = 5 /\ sel_pc = "returned"
    /\ Cardinality(WithUnusedAfter(4)) = 4
    /\ sel_log[5].pool_before = {}

\* C5: the round pool is refilled only when it is empty, a refill holds exactly
\* the folders that still have an unused video, and between two consecutive
\* refills every folder is selected at most once.
C5_RoundPool ==
    MultiFolder =>
        /\ \A i \in 1..Len(sel_log) :
              /\ sel_log[i].pool # sel_log[i].pool_before => sel_log[i].pool_before = {}
              /\ sel_log[i].pool_before = {} => sel_log[i].pool = WithUnusedAfter(i - 1)
        /\ \A i, j \in 1..Len(sel_log) :
              (i < j /\ \A m \in (i + 1)..j : sel_log[m].pool_before # {}) =>
                  sel_log[i].folder # sel_log[j].folder

C5_Witness ==
    /\ MultiFolder /\ Len(sel_log) >= 4
    /\ \E i \in 2..Len(sel_log) :
          /\ sel_log[i].pool_before = {}
          /\ sel_log[i].pool # DOMAIN folder_to_videos
          /\ Cardinality(sel_log[i].pool) >= 2
          /\ i + 1 <= Len(sel_log)

C19_PoolHasUnused ==
    (MultiFolder /\ count <= TotalVideos(folder_to_videos)
       /\ \A f \in DOMAIN folder_to_videos : folder_to_videos[f] # {}) =>
        /\ sel_pc \in {"loop", "returned"} =>
              \A f \in available_folders_in_round :
                  folder_to_videos[f] \ Range(result) # {}
        /\ \A i \in 1..Len(sel_log) :
              /\ sel_log[i].stage = "candidate"
              /\ \A f \in sel_log[i].pool : f \in WithUnusedAfter(i - 1)
        /\ sel_pc = "returned" => Len(result) = count
        /\ sel_pc # "raised"

C19_Witness ==
    /\ sel_pc = "returned" /\ NumFolders = 3 /\ Len(sel_log) = MaxCount
    /\ TotalVideos(folder_to_videos) > MaxCount
    /\ \E i \in 2..Len(sel_log) :
          sel_log[i].pool_before = {} /\ sel_log[i].pool # DOMAIN folder_to_videos
    /\ \A i \in 1..Len(sel_log) : sel_log[i].stage = "candidate"

\* C21: a selection call never changes the catalog it is given: at every
\* point of every call, returned or raised, first or repeated, the catalog is
\* the one the caller built, so every call starts on the full inventory.
C21_CatalogNotMutated ==
    sel_calls >= 1 =>
        /\ folder_to_videos = catalog_passed
        /\ DOMAIN folder_to_videos = DOMAIN catalog_passed
        /\ sel_pc = "call" => TotalVideos(folder_to_videos) = TotalVideos(catalog_passed)

C21_Witness ==
    /\ sel_calls = MaxCalls /\ sel_pc = "returned" /\ NumFolders = 2
    /\ count = TotalVideos(catalog_passed) /\ Len(result) = count
    /\ Range(result) = AllPaths

\* C29: for every catalog mapping, folders with an empty list included, the
\* call either returns count distinct paths or raises the ValueError of
\* insufficient inventory: no other error, never fewer than count paths.
C29_ReturnsOrValueError ==
    /\ sel_pc = "raised" =>
          (sel_exc = "ValueError" /\ count > TotalVideos(folder_to_videos))
    /\ sel_pc = "returned" => (Len(result) = count /\ NoDuplicate(result))

\* C29 for the mappings get_all_video_files builds (no empty list, at least
\* one folder) and for mappings of a single folder
ReturnsOrValueErrorNoEmptyList ==
    ((\A f \in DOMAIN folder_to_videos : folder_to_videos[f] # {}) \/ NumFolders = 1)
        => C29_ReturnsOrValueError

\* ------------------------------------------------ properties: stories

\* the positions of selected_videos the clip loop went through before it
\* ended: all of them, or up to the clip that reached the audio duration
Visited(env, r) ==
    IF r.total_duration >= env.audio_duration
    THEN 1..r.video_clips[Len(r.video_clips)]
    ELSE 1..Len(env.selected_videos)

\* the call has run the clip loop of lines 77-89
RanClipLoop(r) == r.at \in {"no_clips", "done", "creation_error"}

\* C17: in a bulk run the loop calls create_video_with_audio for every story
\* of the input list exactly once, in input order, whether the earlier calls
\* returned after a failure or raised; the run ends only by returning.
C17_EveryStoryAttemptedOnce ==
    batch_pc # "idle" =>
        /\ batch_pc \in {"loop", "returned"}
        /\ Len(attempted) = story_i /\ story_i <= Len(stories_data)
        /\ \A k \in 1..Len(attempted) : attempted[k] = stories_data[k].title
        /\ batch_pc = "returned" => Len(attempted) = Len(stories_data)

C17_Witness ==
    /\ batch_pc = "returned" /\ Len(stories_data) = MaxStories
    /\ attempted = [k \in 1..MaxStories |-> k]
    /\ story_results[1].ended = "raised"
    /\ story_results[2].at \in {"insufficient", "no_clips", "creation_error"}
    /\ story_results[MaxStories].at = "done"

\* C18: a selected clip that cannot be opened is skipped and the loop goes on
\* with the remaining selected clips (the clips loaded are exactly the readable
\* ones among those the loop went through); and when the accumulated duration
\* of the loaded clips stays below the audio duration, assembly fails and no
\* final video is published for the story.
C18_SkipUnreadableFailIfShort ==
    \A k \in 1..Len(story_results) :
        LET r == story_results[k]
            env == stories_data[k].env
        IN RanClipLoop(r) =>
              /\ Range(r.video_clips) =
                    {j \in Visited(env, r) : env.selected_videos[j].readable}
              /\ r.total_duration < env.audio_duration =>
                    (r.at # "done" /\ r.final = "absent")


RECURSIVE DurationOf(_, _)
\* the summed duration of the clips of `selected` at the positions `ps`
DurationOf(selected, ps) ==
    IF ps = {} THEN 0
    ELSE LET k == CHOOSE x \in ps : TRUE
         IN selected[k].duration + DurationOf(selected, ps \ {k})

\* the clips loaded are the readable clips of a prefix of the selection, in
\* selection order, and loading stopped at the first clip at which the
\* accumulated duration reached the audio duration
LoadedPrefix(env, r) ==
    /\ \A a, b \in 1..Len(r.video_clips) : a < b => r.video_clips[a] < r.video_clips[b]
    /\ Range(r.video_clips) = {j \in Visited(env, r) : env.selected_videos[j].readable}
    /\ r.total_duration = DurationOf(env.selected_videos, Range(r.video_clips))
    /\ \A n \in 1..(Len(r.video_clips) - 1) :
          DurationOf(env.selected_videos, {r.video_clips[m] : m \in 1..n})
              < env.audio_duration

\* C24: the call requests floor(audio_duration / 5) + 1 clips, loads them in
\* selection order skipping unreadable ones and stops at the first clip at
\* which the accumulated duration reaches the audio duration; and the clips
\* selected are enough to cover the audio duration (stated for selections
\* whose clips all open, the reading most favourable to the statement).
C24_SelectionCoversAudio ==
    \A k \in 1..Len(story_results) :
        LET r == story_results[k]
            env == stories_data[k].env
        IN RanClipLoop(r) =>
              /\ Len(env.selected_videos) = (env.audio_duration \div (5 * Second)) + 1
              /\ LoadedPrefix(env, r)
              /\ (\A j \in 1..Len(env.selected_videos) : env.selected_videos[j].readable)
                    => DurationOf(env.selected_videos, 1..Len(env.selected_videos))
                          >= env.audio_duration

\* C24 without its last part: the request and the loading rule alone.
RequestAndLoadingRule ==
    \A k \in 1..Len(story_results) :
        LET r == story_results[k]
            env == stories_data[k].env
        IN RanClipLoop(r) =>
              /\ Len(env.selected_videos) = (env.audio_duration \div (5 * Second)) + 1
              /\ LoadedPrefix(env, r)

\* the position in the input list of the story with this title
StoryAt(title) == CHOOSE k \in 1..Len(stories_data) : stories_data[k].title = title

\* C27: a story is in the success list only if its call left a final video
\* in its output folder; a story whose audio is missing, whose inventory is
\* insufficient or whose clips all fail to load is not in the list.
C27_SuccessMeansFinalVideo ==
    /\ \A n \in 1..Len(successful_videos) :
          story_results[StoryAt(successful_videos[n])].final # "absent"
    /\ \A k \in 1..Len(story_results) :
          story_results[k].at \in {"no_audio", "insufficient", "no_clips"} =>
              stories_data[k].title \notin Range(successful_videos)

\* what the success list does hold: the stories whose call returned, in order
SuccessMeansReturned ==
    successful_videos =
        SelectSeq([k \in 1..Len(story_results) |-> stories_data[k].title],
                  LAMBDA t : story_results[StoryAt(t)].ended = "returned")

\* ------------------------------------------------ properties: catalog

\* the extensions the catalog admits, without the dot
AllowedExtensions ==
    {<<"m", "p", "4">>, <<"m", "o", "v">>, <<"a", "v", "i">>, <<"m", "k", "v">>,
     <<"w", "e", "b", "m">>}

\* an upper-case letter and its lower-case form
LetterPairs == {<<"A", "a">>, <<"B", "b">>, <<"E", "e">>, <<"I", "i">>, <<"K", "k">>,
                <<"M", "m">>, <<"O", "o">>, <<"P", "p">>, <<"V", "v">>, <<"W", "w">>}

\* c is the lower-case letter e or its upper-case form
SameLetter(c, e) == c = e \/ <<c, e>> \in LetterPairs

\* the name ends in a dot followed by the extension, letters compared without
\* regard to case
EndsWithExtension(name, ext) ==
    /\ Len(name) > Len(ext) + 1
    /\ name[Len(name) - Len(ext)] = "."
    /\ \A k \in 1..Len(ext) : SameLetter(name[Len(name) - Len(ext) + k], ext[k])

HasAllowedExtension(name) == \E ext \in AllowedExtensions : EndsWithExtension(name, ext)

\* the files of the tree that lie directly under the root
EligibleAtRoot == {RootPath(n) : n \in {f \in videos_root.files : HasAllowedExtension(f)}}

\* the files of the tree that lie directly under subfolder d
EligibleIn(d) ==
    {DirPath(d, n) : n \in {f \in videos_root.dirs[d].files : HasAllowedExtension(f)}}

CatalogFiles == UNION {folder_to_videos[f] : f \in DOMAIN folder_to_videos}

\* C20: the catalog returned holds a file if and only if the file lies
\* directly under the root or directly under a first-level subfolder and has
\* an allowed extension; root-level files are under '_root', the files of a
\* subfolder under its name (both layouts together as well); no entry is
\* empty; a missing root gives the empty catalog.
C20_CatalogContents ==
    cat_pc = "returned" =>
        IF ~videos_root.exists THEN DOMAIN folder_to_videos = {}
        ELSE /\ CatalogFiles =
                   EligibleAtRoot \cup UNION {EligibleIn(d) : d \in DOMAIN videos_root.dirs}
             /\ EligibleAtRoot # {} =>
                   (RootLabel \in DOMAIN folder_to_videos
                    /\ EligibleAtRoot \subseteq folder_to_videos[RootLabel])
             /\ \A d \in DOMAIN videos_root.dirs :
                   EligibleIn(d) # {} =>
                       (d \in DOMAIN folder_to_videos
                        /\ EligibleIn(d) \subseteq folder_to_videos[d])
             /\ \A f \in DOMAIN folder_to_videos : folder_to_videos[f] # {}

\* C20 away from the reserved name: the same statement for trees without a
\* subfolder named '_root'.
CatalogContentsNoReservedName ==
    RootLabel \notin DOMAIN videos_root.dirs => C20_CatalogContents

\* the groups of the catalog that hold path p
GroupsOf(p) == {f \in DOMAIN folder_to_videos : p \in folder_to_videos[f]}

\* C30: in the catalog returned every video file found appears exactly once,
\* under the group of the place where it was found ('_root' for the root, the
\* subfolder's name for a subfolder), for every tree, a subfolder named
\* '_root' beside root-level videos included.
C30_EveryVideoOnce ==
    (cat_pc = "returned" /\ videos_root.exists) =>
        /\ \A p \in EligibleAtRoot : GroupsOf(p) = {RootLabel}
        /\ \A d \in DOMAIN videos_root.dirs : \A p \in EligibleIn(d) : GroupsOf(p) = {d}

\* ------------------------------------------------ properties: encoding

Tiers == <<"vaapi", "alt_vaapi", "cpu">>

TierRank(t) == CHOOSE k \in 1..Len(Tiers) : Tiers[k] = t

Succeeded == {i \in 1..Len(attempts) : attempts[i].outcome = "ok"}

AllFailed(outcomes) ==
    /\ Len(attempts) = Len(outcomes)
    /\ \A i \in 1..Len(outcomes) :
          attempts[i].tier = outcomes[i][1] /\ attempts[i].outcome = outcomes[i][2]

\* C7: when _apply_duration_based_speed_vaapi has returned, whatever the
\* outcomes of the runs and also after the no-speedup rename, a file exists at
\* final_output.mp4 and normal_speed.mp4 no longer exists.
C7_OneArtifactAfterReturn ==
    enc_pc = "returned" => (final_file # "absent" /\ normal_file = "absent")

C7_Witness ==
    /\ enc_pc = "returned"
    /\ AllFailed(<<<<"vaapi", "nonzero">>, <<"alt_vaapi", "timeout">>,
                   <<"cpu", "exception">>>>)
    /\ final_file # "absent" /\ normal_file = "absent"

\* C8: when the encode call has returned, final_output.mp4 holds the complete
\* output of the one run that succeeded, or, exactly when every run attempted
\* has failed, the unmodified normal-speed video; never a failed run's partial
\* file.
C8_FinalContent ==
    enc_pc = "returned" =>
        /\ Succeeded # {} =>
              /\ Succeeded = {Len(attempts)}
              /\ final_file = attempts[Len(attempts)].tier
        /\ Succeeded = {} <=> final_file = "intermediate"
        /\ final_file # "partial"

C8_Witness ==
    /\ enc_pc = "returned" /\ Len(attempts) = 3 /\ Succeeded = {}
    /\ \A i \in 1..3 : attempts[i].left = "partial"
    /\ final_file = "intermediate"

\* C9: within one encode call the backends attempted form a strictly
\* increasing subsequence of (VAAPI primary, VAAPI alternative, CPU): none is
\* attempted twice or out of order, and none after one has succeeded.
C9_AttemptsInTierOrder ==
    /\ \A i \in 1..Len(attempts) : attempts[i].tier \in Range(Tiers)
    /\ \A i, j \in 1..Len(attempts) :
          i < j => TierRank(attempts[i].tier) < TierRank(attempts[j].tier)
    /\ \A i \in 1..Len(attempts) : attempts[i].outcome = "ok" => i = Len(attempts)
    /\ Succeeded # {} => enc_pc = "returned"

C9_Witness ==
    /\ Len(attempts) = 3 /\ attempts[3].outcome = "ok" /\ enc_pc = "returned"
    /\ attempts[1].tier = "vaapi" /\ attempts[2].tier = "alt_vaapi"
    /\ attempts[3].tier = "cpu"

\* the tier after t in the order, "keep" (the terminal fallback) after the last
NextInOrder(t) == IF TierRank(t) < Len(Tiers) THEN Tiers[TierRank(t) + 1] ELSE "keep"

\* what follows attempt i is `next`: the run of that tier, or for "keep" the
\* return with the normal-speed video as the final output
FollowedBy(i, next) ==
    IF i < Len(attempts) THEN attempts[i + 1].tier = next
    ELSE IF next = "keep" THEN enc_pc = "returned" /\ final_file = "intermediate"
    ELSE enc_pc = next

KeptOriginal == enc_pc = "returned" /\ ~IsOne(speed_factor) /\ final_file = "intermediate"

\* C10 as stated: every failed run is followed by the next tier in the order,
\* no tier is skipped, and the normal-speed video is kept only after all three
\* tiers have been attempted and have failed.
C10_FallthroughOriginal ==
    /\ \A i \in 1..Len(attempts) :
          attempts[i].outcome # "ok" => FollowedBy(i, NextInOrder(attempts[i].tier))
    /\ KeptOriginal => (Len(attempts) = Len(Tiers) /\ Succeeded = {})

\* what the code does after a failed run of tier t that ended with outcome o
FallthroughTable(t, o) ==
    IF t = "vaapi" /\ o \in {"timeout", "exception"} THEN "cpu"
    ELSE IF t = "vaapi" /\ o = "notfound" THEN "keep"
    ELSE NextInOrder(t)

\* C10 amended: every failure is non-fatal; a non-zero exit at any tier and
\* any failure at the alternative VAAPI device or the CPU tier falls through to
\* the next tier in the order; a timeout or other exception at the primary
\* VAAPI device falls through to the CPU tier, skipping the alternative
\* device; a missing ffmpeg binary at the primary device goes straight to the
\* terminal fallback. The normal-speed video is kept only after every
\* attempted run has failed and, unless the primary run found no binary, after
\* the CPU tier has been attempted.
C10_FallthroughAmended ==
    /\ \A i \in 1..Len(attempts) :
          attempts[i].outcome # "ok" =>
              FollowedBy(i, FallthroughTable(attempts[i].tier, attempts[i].outcome))
    /\ enc_pc \in {"call", "vaapi", "alt_vaapi", "cpu", "returned"}
    /\ KeptOriginal =>
          /\ Succeeded = {}
          /\ \/ attempts[Len(attempts)].tier = "cpu"
             \/ (Len(attempts) = 1 /\ attempts[1].outcome = "notfound")

C10_Witness ==
    /\ KeptOriginal
    /\ AllFailed(<<<<"vaapi", "timeout">>, <<"cpu", "notfound">>>>)

\* ------------------------------------------------ properties: tiers and factor

\* the files of the output folder that the encode call has created or left
OutputFolderFiles ==
    (IF normal_file # "absent" THEN {"normal_speed.mp4"} ELSE {})
    \cup (IF final_file # "absent" THEN {"final_output.mp4"} ELSE {})

\* C11 as stated: a CPU run is made only after a run of an NVENC backend.
C11_NvencBeforeCpuOriginal ==
    \A i \in 1..Len(attempts) :
        attempts[i].tier = "cpu" => \E j \in 1..(i - 1) : attempts[j].tier = "nvenc"

\* C11 amended: after the last VAAPI device attempt (the alternative device)
\* has failed, the software (CPU) encode is attempted next; the fallback
\* sequence holds no NVENC backend, its backends are the primary VAAPI device,
\* the alternative VAAPI device and the CPU.
C11_CpuFollowsVaapiAmended ==
    /\ \A i \in 1..Len(attempts) :
          (attempts[i].tier = "alt_vaapi" /\ attempts[i].outcome # "ok") =>
              IF i < Len(attempts) THEN attempts[i + 1].tier = "cpu" ELSE enc_pc = "cpu"
    /\ \A i \in 1..Len(attempts) : attempts[i].tier \in {"vaapi", "alt_vaapi", "cpu"}
    /\ enc_pc \in {"call", "vaapi", "alt_vaapi", "cpu", "returned"}

C11_Witness ==
    /\ Len(attempts) = 3 /\ attempts[1].outcome = "nonzero"
    /\ attempts[2].tier = "alt_vaapi" /\ attempts[2].outcome = "nonzero"
    /\ attempts[3].tier = "cpu"

FracLess(a, b) == a[1] * b[2] < b[1] * a[2]

FracEq(a, b) == a[1] * b[2] = b[1] * a[2]

C15_LongVideoTarget ==
    (enc_pc = "factor_done" /\ duration_seconds >= 180) =>
        /\ target_duration >= 150 /\ target_duration <= 166
        /\ speed_factor[1] * target_duration = duration_seconds * speed_factor[2]
        /\ 150 * speed_factor[1] <= duration_seconds * speed_factor[2]
        /\ duration_seconds * speed_factor[2] <= 166 * speed_factor[1]

C15_Witness ==
    /\ enc_pc = "factor_done" /\ duration_seconds = 180 /\ target_duration = 166
    /\ speed_factor = <<180, 166>>

Earlier(p) == {Providers[j] : j \in 1..((CHOOSE k \in 1..Len(Providers) : Providers[k] = p) - 1)}

\* C25: the providers are called in the order OpenAI, DeepSeek, LMStudio; a
\* provider is called only if every earlier one returned None; the first
\* non-None result is returned and no further provider is called; None is
\* returned only if all three returned None.
C25_ProviderFallbackOrder ==
    gen_pc # "idle" =>
        /\ gen_calls = SubSeq(Providers, 1, Len(gen_calls))
        /\ \A i \in 1..Len(gen_calls) : \A q \in Earlier(gen_calls[i]) :
              answers[q] \in {"exception", "null"}
        /\ gen_pc = "returned" =>
              LET last == gen_calls[Len(gen_calls)]
              IN /\ gen_calls # <<>>
                 /\ answers[last] \in {"empty", "text"} =>
                       (gen_result # GenNone /\ gen_result[1] = last
                        /\ gen_result[2] = (IF answers[last] = "empty" THEN "" ELSE "text"))
                 /\ gen_result = GenNone =>
                       (gen_calls = Providers
                        /\ \A q \in Range(Providers) : answers[q] \in {"exception", "null"})
        /\ gen_pc # "returned" => gen_result = GenNone

C25_Witness ==
    /\ gen_pc = "returned" /\ gen_calls = <<"openai", "deepseek">>
    /\ answers["openai"] = "null" /\ answers["deepseek"] = "empty"
    /\ answers["lmstudio"] = "text" /\ gen_result = <<"deepseek", "">>

\* ------------------------------------------------ properties: pipeline

\* C26: after create_video_with_audio has published the final video in a
\* story's output folder, the transcription step run on that folder finds its
\* input video.
C26_TranscriptionFindsVideo ==
    \A n \in 1..Len(transcription_log) :
        PublishedName \in transcription_log[n].files => transcription_log[n].found

\* what the transcription step finds in the folders the video phase leaves
TranscriptionNeverFindsVideo ==
    /\ \A n \in 1..Len(transcription_log) : ~transcription_log[n].found
    /\ successful_transcriptions = <<>>

\* ------------------------------------------------ properties: messages

\* the message printed when a run of tier t starts
StartMessage(t) ==
    CASE t = "vaapi" -> "processing_vaapi"
      [] t = "alt_vaapi" -> "trying_alt"
      [] t = "cpu" -> "using_cpu"

\* the messages that state that the run of tier t failed
FailureMessages(t) ==
    CASE t = "vaapi" -> {"vaapi_failed", "vaapi_timeout", "ffmpeg_not_found", "vaapi_error"}
      [] t = "alt_vaapi" -> {"alt_failed", "alt_error"}
      [] t = "cpu" -> {"cpu_failed", "cpu_error"}

Positions(msgs) == {p \in 1..Len(enc_log) : enc_log[p] \in msgs}

\* every failed attempt has its failure message in the log, before the start
\* message of the attempt that follows it
FailuresReported ==
    \A i \in 1..Len(attempts) :
        attempts[i].outcome # "ok" =>
            \E q \in Positions(FailureMessages(attempts[i].tier)) :
                i < Len(attempts) =>
                    \A p \in Positions({StartMessage(attempts[i + 1].tier)}) : q < p

\* C23: every failed tier attempt has printed a message stating that this
\* tier failed before any later tier is attempted, and every terminal
\* fallback (the normal-speed video promoted to the final output) has printed
\* the message that the normal-speed video is kept.
C23_NothingSilent ==
    /\ FailuresReported
    /\ KeptOriginal => "keeping_normal" \in Range(enc_log)

\* C23 without the path that starts with a non-zero exit of the primary
\* VAAPI run: there every failure and the terminal fallback are reported.
ReportedUnlessNonzeroFirst ==
    /\ FailuresReported
    /\ (KeptOriginal /\ attempts[1].outcome # "nonzero") =>
          "keeping_normal" \in Range(enc_log)

\* ------------------------------------------------ properties: termination

\* C22: every encode call returns, whatever the outcomes of its runs, and
\* makes at most three backend attempts; every selection call returns or
\* raises, after at most count iterations of its loop.
C22_CallsTerminate ==
    /\ [](Len(attempts) <= Len(Tiers) /\ round_i <= count)
    /\ (enc_pc = "call") ~> (enc_pc = "returned")
    /\ (sel_pc = "call") ~> (sel_pc \in {"returned", "raised"})

C22_Witness ==
    /\ enc_pc = "returned" /\ Len(attempts) = Len(Tiers)
    /\ attempts[1].outcome = "nonzero" /\ attempts[2].outcome = "exception"
    /\ attempts[3].outcome = "timeout"

====
